---- MODULE Spec2Model ----
(***************************************************************************)
(* Order placement with inventory reservation under row locks              *)
(* (Orders/order_routes.py), payment reconciliation by signed webhook      *)
(* (Payments/payment_routes.py) and order deletion, over the tables of     *)
(* models.py.  Money is in hundredths (Numeric(10, 2) is exact), UUIDs are *)
(* small integers, 0 stands for None.                                      *)
(***************************************************************************)
EXTENDS Integers, Sequences, FiniteSets, TLC

\* ------------------------------------------------------------------ bounds
MaxStock == 2
MaxQty == 2

\* ------------------------------------------------------- tables (read-only)
None == 0

Users == {1, 2}

\* users.is_staff
IsStaff == (1 :> FALSE) @@ (2 :> TRUE)

\* addresses.user_id; address 3 is no row.
AddressOwner == (1 :> 1) @@ (2 :> 2)
AddressIds == {1, 2, 3}

\* products.base_price; product 3 is no row (and so has no inventory row).
BasePrice == (1 :> 1000) @@ (2 :> 550)
ProductRows == DOMAIN BasePrice

\* products.is_active: product 2 has been withdrawn from sale.
IsActive == (1 :> TRUE) @@ (2 :> FALSE)
ProductIds == {1, 2, 3}

\* product_variants: product_id and price_modifier; variant 2 is no row.
VariantProduct == (1 :> 1)
VariantModifier == (1 :> 200)
VariantIds == {1, 2}

\* inventory.product_id is unique and references products.id.
InventoryRows == {1, 2}

\* The values of uuid4().hex[:10] that place_order may draw.
Refs == {1, 2}

\* Concurrent place_order requests.
Tasks == {1, 2}

\* ------------------------------------------------------------------- state
VARIABLES
    initial,    \* inventory.quantity of each row before any request
    inventory,  \* committed inventory.quantity, by product
    locks,      \* the transaction holding the FOR UPDATE lock of a row, or None
    orders,     \* committed orders rows with their order_items, by id
    payments,   \* committed payments rows, by id
    nextOrder,  \* ids already given to orders, plus one
    tasks,      \* each place_order request: position, session and response
    hooks,      \* each paystack_webhook request: position, session and response
    deletes,    \* each delete_order request: position, session and response
    reads,      \* the last answer to each client of the read routes
    tokens      \* the access token of each user: valid, blocklisted or expired

vars == <<initial, inventory, locks, orders, payments, nextOrder, tasks, hooks, deletes, reads, tokens>>

\* --------------------------------------------------------------- requests
\* OrderItemCreateModel: product_id, optional variant_id, quantity (gt=0).
Line(p, v, q) == [product |-> p, variant |-> v, quantity |-> q]

\* The item lists the requests carry: one or two lines, over both stocked
\* products in both orders, the same product twice, a priced variant, a
\* variant of another product, a quantity above one and a product with no row.
ItemLists ==
    { <<Line(1, None, 1)>>, <<Line(1, 1, 1)>>, <<Line(2, None, 1)>>,
      <<Line(1, 1, MaxQty)>>,
      <<Line(2, None, MaxQty)>>, <<Line(2, 1, 1)>>, <<Line(3, None, 1)>>,
      <<Line(1, None, 1), Line(2, None, 1)>>,
      <<Line(2, None, 1), Line(1, None, 1)>>,
      <<Line(1, None, 1), Line(1, None, 1)>>,
      <<Line(1, 1, MaxQty), Line(2, None, MaxQty)>>,
      <<Line(2, None, 1), Line(3, None, 1)>> }

\* OrderCreateModel with the authenticated user: user 1 asks for its own
\* address or one that is no row, user 2 for the address of user 1.
Requests ==
    { r \in [user : Users, address : {1, 3}, items : ItemLists] :
        \/ r.user = 1 /\ r.address = 1
        \/ r.items = <<Line(1, None, 1)>> /\ (r.user = 1 \/ r.address = 1) }

NoRequest == [user |-> None, address |-> None, items |-> <<>>]

\* The detail of an HTTPException: its text and the values formatted into it.
NoDetail == [message |-> ""]

IdleTask ==
    [pc |-> "idle", req |-> NoRequest, ref |-> None, idx |-> 0,
     qty |-> [p \in InventoryRows |-> 0], built |-> <<>>, total |-> 0,
     code |-> "", detail |-> NoDetail, order |-> None, events |-> <<>>]

\* ---------------------------------------------------------------- helpers
RECURSIVE SumItems(_)
SumItems(items) ==
    IF items = <<>> THEN 0
    ELSE items[1].quantity * items[1].unit_price + SumItems(Tail(items))

RECURSIVE QtyOf(_, _)
QtyOf(items, p) ==
    IF items = <<>> THEN 0
    ELSE (IF items[1].product_id = p THEN items[1].quantity ELSE 0) + QtyOf(Tail(items), p)

\* Authorize.jwt_required(): the token's signature and expiry are verified; no
\* denylist callback is configured, so the blocklist is not consulted.
JwtRequired(user) == tokens[user] # "expired"

\* get_current_user, the dependency of every route of order_router: only
\* jwt_required(), then the user row.  A failure of jwt_required() is an
\* AuthJWTException, for which no handler is registered: a 500.
CurrentUser(user) == JwtRequired(user)

\* require_jwt of auth_routes: jwt_required() and is_token_blocklisted(jti).
RequireJwt(user) == JwtRequired(user) /\ tokens[user] # "blocklisted"

\* Validation of the body against OrderCreateModel, before the handler runs:
\* quantity has gt=0, items is a list of any length.
SchemaValid(req) ==
    \A i \in 1..Len(req.items) : req.items[i].quantity > 0

\* Mutant: the address is selected by id alone, whoever owns it.
AddressExists(req) == req.address \in DOMAIN AddressOwner

\* select(Address).where(id == delivery_address_id, user_id == current_user.id)
AddressFound(req) ==
    /\ req.address \in DOMAIN AddressOwner
    /\ AddressOwner[req.address] = req.user

\* select(ProductVariant).where(id == variant_id, product_id == product.id)
VariantFound(v, p) ==
    /\ v \in DOMAIN VariantProduct
    /\ VariantProduct[v] = p

\* Mutant: the variant's price_modifier is left out of the unit price.
BasePriceOnly(p, v) == BasePrice[p]

\* unit_price = Decimal(base_price) + price_modifier
UnitPrice(p, v) ==
    BasePrice[p] + (IF v = None THEN 0 ELSE VariantModifier[v])

\* Mutant: the line's quantity is left out of the total.
AddUnitToTotal(total, unit, quantity) == total + unit

\* total_amount += unit_price * item_data.quantity
AddToTotal(total, unit, quantity) == total + unit * quantity

\* Mutant: the select takes no row lock.
CanRead(t, p) == TRUE

\* The row lock of select(Inventory).with_for_update(): granted when no other
\* transaction holds it; without NOWAIT the statement waits otherwise.
CanLock(t, p) == locks[p] \in {None, t}

\* Mutant: the select returns the committed value whatever the session holds.
ReadCommitted(t, p) == inventory[p]

\* The quantity the locked select returns: the committed value, or the
\* session's own value when this transaction has already updated the row.
ReadQuantity(t, p) ==
    IF locks[p] = t THEN tasks[t].qty[p] ELSE inventory[p]

\* Mutant: the comparison of line 117 is off by one.
InsufficientOrEqual(have, quantity, asked) == ~have \/ quantity <= asked

\* Line 117: no inventory row, or fewer units than the line asks for.
Insufficient(have, quantity, asked) == ~have \/ quantity < asked

\* Line 120: f"Insufficient stock for product {item_data.product_id}"
InsufficientStockDetail(p) ==
    [message |-> "Insufficient stock for product", product |-> p]

\* Mutant: the units of the order are added to the row, not taken from it.
CommittedUpwards(t) ==
    [p \in InventoryRows |->
        IF locks[p] = t THEN inventory[p] + (inventory[p] - tasks[t].qty[p])
        ELSE inventory[p]]

\* Commit at the exit of db.begin(): the rows this transaction updated take
\* the session's values.
Committed(t) ==
    [p \in InventoryRows |-> IF locks[p] = t THEN tasks[t].qty[p] ELSE inventory[p]]

\* Mutant: the updates made before the failure are committed, not dropped.
RolledBackPartly(t) == Committed(t)

\* Rollback at the exit of db.begin(): the committed rows stay as they were,
\* the session's changes are dropped and its row locks released.
RolledBack(t) == inventory

Released(t) == [p \in InventoryRows |-> IF locks[p] = t THEN None ELSE locks[p]]

Aborted(t, code) ==
    [tasks[t] EXCEPT !.pc = "done", !.code = code, !.idx = 0, !.ref = None,
                     !.qty = [p \in InventoryRows |-> 0],
                     !.built = <<>>, !.total = 0]

\* ------------------------------------------------------------- place_order
\* get_current_user, validation of the body, lines 86-102 and the entry of
\* db.begin(): the reference is drawn, the address is checked, the
\* transaction starts.
PlaceStart(t, asked) ==
    /\ tasks[t].pc = "idle"
    /\ \E req \in asked, ref \in Refs :
          tasks' = [tasks EXCEPT ![t] =
              IF ~CurrentUser(req.user)
              THEN [IdleTask EXCEPT !.pc = "done", !.req = req, !.code = "500"]
              ELSE IF ~SchemaValid(req)
              THEN [IdleTask EXCEPT !.pc = "done", !.req = req, !.code = "422"]
              ELSE IF AddressFound(req)
              THEN [IdleTask EXCEPT !.pc = "tx", !.req = req, !.ref = ref]
              ELSE [IdleTask EXCEPT !.pc = "done", !.req = req, !.code = "404"]]
    /\ UNCHANGED <<initial, inventory, locks, orders, payments, nextOrder, hooks, deletes, reads, tokens>>

\* One pass of the loop body, lines 106-169, for the next line of the request.
ProcessLine(t) ==
    LET me == tasks[t]
        line == me.req.items[me.idx + 1]
        p == line.product
        have == p \in InventoryRows
        quantity == IF have THEN ReadQuantity(t, p) ELSE 0
        unit == UnitPrice(p, line.variant)
        item == [product_id |-> p, variant_id |-> line.variant,
                 quantity |-> line.quantity, unit_price |-> unit]
    IN  /\ me.pc = "tx"
        /\ me.idx < Len(me.req.items)
        /\ have => CanLock(t, p)
        /\ IF Insufficient(have, quantity, line.quantity)
           THEN /\ tasks' = [tasks EXCEPT ![t] =
                      [Aborted(t, "409") EXCEPT !.detail = InsufficientStockDetail(p)]]
                /\ locks' = Released(t)
                /\ inventory' = RolledBack(t)
           ELSE IF p \notin ProductRows
           THEN /\ tasks' = [tasks EXCEPT ![t] = Aborted(t, "404")]
                /\ locks' = Released(t)
                /\ inventory' = RolledBack(t)
           ELSE IF line.variant # None /\ ~VariantFound(line.variant, p)
           THEN /\ tasks' = [tasks EXCEPT ![t] = Aborted(t, "404")]
                /\ locks' = Released(t)
                /\ inventory' = RolledBack(t)
           ELSE /\ tasks' = [tasks EXCEPT ![t] =
                      [me EXCEPT !.idx = me.idx + 1,
                                 !.qty[p] = quantity - line.quantity,
                                 !.built = Append(me.built, item),
                                 !.total = AddToTotal(me.total, unit, line.quantity)]]
                /\ locks' = [locks EXCEPT ![p] = t]
                /\ inventory' = inventory
        /\ UNCHANGED <<initial, orders, payments, nextOrder, hooks, deletes, reads, tokens>>

\* Lines 171-190 and the exit of db.begin(): the order with its items and the
\* payment are inserted, the updated inventory rows written, all in one commit.
NewOrder(t) ==
    [user_id |-> tasks[t].req.user, total_amount |-> tasks[t].total,
     delivery_address_id |-> tasks[t].req.address, status |-> "PENDING",
     items |-> tasks[t].built]

\* Mutant: the payment is built from the order before its id is known.
NewPaymentUnflushed(t, oid) ==
    [order_id |-> None, amount |-> tasks[t].total, status |-> "PENDING",
     method |-> "DEBIT_CARD", transaction_id |-> tasks[t].ref,
     gateway_response |-> None]

NewPayment(t, oid) ==
    [order_id |-> oid, amount |-> tasks[t].total, status |-> "PENDING",
     method |-> "DEBIT_CARD", transaction_id |-> tasks[t].ref,
     gateway_response |-> None]

\* The calls place_order makes to publish_order_created_event once the
\* transaction has committed, lines 192-221: none; the function of lines
\* 44-52 is called nowhere.
Published(t, oid) == <<>>

Commit(t) ==
    LET me == tasks[t]
        pid == Cardinality(DOMAIN payments) + 1
    IN  /\ me.pc = "tx"
        /\ me.idx = Len(me.req.items)
        /\ orders' = (nextOrder :> NewOrder(t)) @@ orders
        /\ payments' = (pid :> NewPayment(t, nextOrder)) @@ payments
        /\ nextOrder' = nextOrder + 1
        /\ inventory' = Committed(t)
        /\ locks' = Released(t)
        /\ tasks' = [tasks EXCEPT ![t] =
               [Aborted(t, "201") EXCEPT !.order = nextOrder,
                                         !.events = Published(t, nextOrder)]]
        /\ UNCHANGED <<initial, hooks, deletes, reads, tokens>>

\* The request is cancelled while its transaction is open: the exit of
\* db.begin() rolls back.
Cancel(t) ==
    /\ tasks[t].pc = "tx"
    /\ tasks' = [tasks EXCEPT ![t] = Aborted(t, "cancelled")]
    /\ locks' = Released(t)
    /\ inventory' = RolledBack(t)
    /\ UNCHANGED <<initial, orders, payments, nextOrder, hooks, deletes, reads, tokens>>

\* The row a transaction is waiting for, if any.
Wanted(t) ==
    IF tasks[t].pc = "tx" /\ tasks[t].idx < Len(tasks[t].req.items)
    THEN LET p == tasks[t].req.items[tasks[t].idx + 1].product
         IN  IF p \in InventoryRows /\ ~CanLock(t, p) THEN {p} ELSE {}
    ELSE {}

WaitsFor(t, u) == \E p \in Wanted(t) : locks[p] = u

\* The database finds a cycle of waiting transactions and fails the statement
\* of one of them: the generic handler of lines 225-230 answers 500.
DeadlockAbort(t) ==
    /\ \E u \in Tasks \ {t} : WaitsFor(t, u) /\ WaitsFor(u, t)
    /\ tasks' = [tasks EXCEPT ![t] = Aborted(t, "500")]
    /\ locks' = Released(t)
    /\ inventory' = RolledBack(t)
    /\ UNCHANGED <<initial, orders, payments, nextOrder, hooks, deletes, reads, tokens>>

\* -------------------------------------------------------- paystack_webhook
NoEvent == ""
NoSignature == <<>>

Secret == "sk_live_xxxxxxx"
OtherKey == "sk_test_yyyyyyy"

\* hmac.new(key, payload, sha512).hexdigest(): a tag that tells apart every
\* key and every body.
Hmac(key, body) == <<"sha512", key, body>>

Body(event, reference, data) ==
    [event |-> event, reference |-> reference, data |-> data]

\* The JSON bodies delivered: charge.success for each reference a payment may
\* carry and one none carries, with two data objects; another event; a body
\* with no event.
Bodies ==
    {Body("charge.success", r, d) : r \in Refs \cup {3}, d \in {1, 2}}
        \cup {Body("charge.failed", 1, 1), Body(NoEvent, 1, 1)}

\* The x-paystack-signature header: absent, the tag of the body sent, the tag
\* under another key, or the tag of another body with the same reference.
Signatures(body) ==
    {NoSignature, Hmac(Secret, body), Hmac(OtherKey, body)}
        \cup {Hmac(Secret, b) : b \in {c \in Bodies : c.reference = body.reference}}

HookRequests ==
    UNION {{[body |-> b, signature |-> s] : s \in Signatures(b)} : b \in Bodies}

\* Deliveries of the gateway itself: signed, charge.success, one data object.
GatewayRequests ==
    {[body |-> Body("charge.success", r, 1),
      signature |-> Hmac(Secret, Body("charge.success", r, 1))] : r \in Refs}

Hooks == {1, 2}

IdleHook ==
    [pc |-> "idle", body |-> Body(NoEvent, None, None), signature |-> NoSignature,
     payment |-> None, code |-> ""]

\* Mutant: any tag made with the secret is accepted, whatever body it signs.
SignatureOfAnyBody(body, signature) ==
    /\ signature # NoSignature
    /\ \E b \in Bodies : Hmac(Secret, b) = signature

\* Lines 27-37: the signature is present and equals the tag of the raw body.
SignatureAccepted(body, signature) ==
    /\ signature # NoSignature
    /\ Hmac(Secret, body) = signature

\* Mutant: the payment is selected without the reference.
PaymentsOfAny(reference) == DOMAIN payments

\* select(Payment).where(Payment.transaction_id == transaction_ref)
PaymentsOf(reference) ==
    {pid \in DOMAIN payments : payments[pid].transaction_id = reference}

\* Lines 24-52: verify, parse, select the payment.  scalar_one_or_none()
\* raises on several rows; event_data['event'] raises on a missing key.
HookDeliver(w, delivered) ==
    /\ hooks[w].pc \in {"idle", "done"}
    /\ \E r \in delivered :
          LET got == [IdleHook EXCEPT !.body = r.body, !.signature = r.signature]
              found == PaymentsOf(r.body.reference)
          IN  hooks' = [hooks EXCEPT ![w] =
                  IF ~SignatureAccepted(r.body, r.signature)
                  THEN [got EXCEPT !.pc = "done", !.code = "401"]
                  ELSE IF r.body.event = NoEvent
                  THEN [got EXCEPT !.pc = "done", !.code = "500"]
                  ELSE IF r.body.event # "charge.success"
                  THEN [got EXCEPT !.pc = "done", !.code = "200"]
                  ELSE IF Cardinality(found) > 1
                  THEN [got EXCEPT !.pc = "done", !.code = "500"]
                  ELSE IF found = {}
                  THEN [got EXCEPT !.pc = "done", !.code = "200"]
                  ELSE [got EXCEPT !.pc = "found",
                                   !.payment = CHOOSE pid \in found : TRUE]]
    /\ UNCHANGED <<initial, inventory, locks, orders, payments, nextOrder, tasks, deletes, reads, tokens>>

\* Mutant: a payment that is not PENDING is put back to PENDING.
HookPaymentToggle(old) == IF old = "PENDING" THEN "COMPLETED" ELSE "PENDING"

\* Lines 54-57: what the handler writes to the payment it found.
HookPaymentStatus(old) == "COMPLETED"

HookPayment(old, data) ==
    [old EXCEPT !.status = HookPaymentStatus(old.status), !.gateway_response = data]

\* Mutant: the handler moves the order one status on instead of setting it.
HookOrderAdvance(old) == IF old = "PENDING" THEN "CONFIRMED" ELSE "PREPARING"

\* Lines 59-65: what the handler writes to the order of that payment.
HookOrderStatus(old) == "CONFIRMED"

\* Lines 54-67: the payment and its order are written and committed.
HookCommit(w) ==
    LET me == hooks[w]
        pid == me.payment
        oid == payments[pid].order_id
    IN  /\ me.pc = "found"
        /\ payments' = [payments EXCEPT ![pid] = HookPayment(payments[pid], me.body.data)]
        /\ orders' = IF oid \in DOMAIN orders
                     THEN [orders EXCEPT ![oid].status = HookOrderStatus(orders[oid].status)]
                     ELSE orders
        /\ hooks' = [hooks EXCEPT ![w] = [me EXCEPT !.pc = "done", !.code = "200"]]
        /\ UNCHANGED <<initial, inventory, locks, nextOrder, tasks, deletes, reads, tokens>>

\* ------------------------------------------------------------ delete_order
Deleters == {1}

DeleteRequests == [user : Users, order : {1, 2}]

OwnerDeleteRequests == {r \in DeleteRequests : r.user = 1}

IdleDelete == [pc |-> "idle", user |-> None, order |-> None, code |-> ""]

\* Mutant: the order is selected by id alone, whoever owns it.
OrderById(user, oid) == {o \in DOMAIN orders : o = oid}

\* select(Order).where(Order.id == order_id, Order.user_id == current_user.id)
OrderOf(user, oid) ==
    {o \in DOMAIN orders : o = oid /\ orders[o].user_id = user}

\* get_current_user and lines 416-424: the order is selected for its owner and
\* must be PENDING.
DeleteStart(d, asked) ==
    /\ deletes[d].pc \in {"idle", "done"}
    /\ \E r \in asked :
          LET got == [IdleDelete EXCEPT !.user = r.user, !.order = r.order]
          IN  deletes' = [deletes EXCEPT ![d] =
                  IF ~CurrentUser(r.user)
                  THEN [got EXCEPT !.pc = "done", !.code = "500"]
                  ELSE IF OrderOf(r.user, r.order) = {}
                  THEN [got EXCEPT !.pc = "done", !.code = "404"]
                  ELSE IF orders[r.order].status # "PENDING"
                  THEN [got EXCEPT !.pc = "done", !.code = "400"]
                  ELSE [got EXCEPT !.pc = "found"]]
    /\ UNCHANGED <<initial, inventory, locks, orders, payments, nextOrder, tasks, hooks, reads, tokens>>

\* Mutant: the payments of a deleted order are left as they are.
DeleteNeverRefused(oid) == FALSE

\* Mutant: the delete is refused only while the order's payment is PENDING.
DeleteRefusedWhilePending(oid) ==
    \E pid \in DOMAIN payments :
        payments[pid].order_id = oid /\ payments[pid].status = "PENDING"

\* Order.payment has no delete cascade, so the flush of the delete sets
\* payments.order_id of the order's payment to NULL; the column is
\* nullable=False.
DeleteRefused(oid) ==
    \E pid \in DOMAIN payments : payments[pid].order_id = oid

\* Lines 426-427: db.delete and commit.  A refused flush raises out of the
\* handler (there is no except clause) and the session rolls back; otherwise
\* the order goes with its items (cascade='all, delete-orphan').
DeleteCommit(d) ==
    LET me == deletes[d]
        oid == me.order
    IN  /\ me.pc = "found"
        /\ IF oid \notin DOMAIN orders \/ DeleteRefused(oid)
           THEN /\ orders' = orders
                /\ deletes' = [deletes EXCEPT ![d] = [me EXCEPT !.pc = "done", !.code = "500"]]
           ELSE /\ orders' = [o \in DOMAIN orders \ {oid} |-> orders[o]]
                /\ deletes' = [deletes EXCEPT ![d] = [me EXCEPT !.pc = "done", !.code = "204"]]
        /\ UNCHANGED <<initial, inventory, locks, payments, nextOrder, tasks, hooks, reads, tokens>>

\* ------------------------------------------------------------- read routes
Readers == {1}

Routes == {"get_my_order", "get_my_orders", "get_order"}

\* Each user asks for its list, and for each order id, one of them no row.
ReadRequests ==
    [route : {"get_my_order", "get_order"}, user : Users, order : {1, 2, 3}]
        \cup [route : {"get_my_orders"}, user : Users, order : {None}]

IdleRead == [route |-> "", user |-> None, order |-> None, code |-> "", body |-> {}]

\* OrderResponseModel as the read routes fill it.
OrderResponse(o) ==
    LET paid == {pid \in DOMAIN payments : payments[pid].order_id = o}
    IN  [total_amount |-> orders[o].total_amount, order_status |-> orders[o].status,
         delivery_address_id |-> orders[o].delivery_address_id,
         payment_reference |->
             IF paid = {} THEN None
             ELSE payments[CHOOSE pid \in paid : TRUE].transaction_id,
         items |-> orders[o].items]

\* get_my_order: the order is selected by id and owner.
GetMyOrder(user, oid) ==
    IF OrderOf(user, oid) = {}
    THEN [code |-> "404", body |-> {}]
    ELSE [code |-> "200", body |-> {OrderResponse(oid)}]

\* get_my_orders: the orders are selected by owner.
GetMyOrders(user) ==
    [code |-> "200",
     body |-> {OrderResponse(o) : o \in {x \in DOMAIN orders : orders[x].user_id = user}}]

\* get_order behind get_staff_user: 403 for a user who is not staff; the
\* order is selected by id alone.  Line 281 calls create_order_response, a
\* name nothing defines or imports: the answer for an order found is the
\* NameError, a 500 with no body.
GetOrder(user, oid) ==
    IF ~IsStaff[user] THEN [code |-> "403", body |-> {}]
    ELSE IF oid \notin DOMAIN orders THEN [code |-> "404", body |-> {}]
    ELSE [code |-> "500", body |-> {}]

\* hello of auth_routes, a route behind require_jwt.
Hello(user) ==
    IF RequireJwt(user) THEN [code |-> "200", body |-> {}]
    ELSE [code |-> "401", body |-> {}]

Answer(q) ==
    IF q.route = "hello" THEN Hello(q.user)
    ELSE IF ~CurrentUser(q.user) THEN [code |-> "500", body |-> {}]
    ELSE IF q.route = "get_my_order" THEN GetMyOrder(q.user, q.order)
    ELSE IF q.route = "get_my_orders" THEN GetMyOrders(q.user)
    ELSE GetOrder(q.user, q.order)

\* One request to a read route, answered from the committed rows.
Read(r, asked) ==
    /\ \E q \in asked :
          reads' = [reads EXCEPT ![r] =
              [route |-> q.route, user |-> q.user, order |-> q.order,
               code |-> Answer(q).code, body |-> Answer(q).body]]
    /\ UNCHANGED <<initial, inventory, locks, orders, payments, nextOrder, tasks, hooks, deletes, tokens>>

\* ------------------------------------------------------------ specification
Init ==
    /\ initial \in [InventoryRows -> 1..MaxStock]
    /\ inventory = initial
    /\ locks = [p \in InventoryRows |-> None]
    /\ orders = <<>>
    /\ payments = <<>>
    /\ nextOrder = 1
    /\ tasks = [t \in Tasks |-> IdleTask]
    /\ hooks = [w \in Hooks |-> IdleHook]
    /\ deletes = [d \in Deleters |-> IdleDelete]
    /\ reads = [r \in Readers |-> IdleRead]
    /\ tokens = [u \in Users |-> "valid"]

\* Concurrent placements over every request, with the gateway's deliveries and
\* the owner's deletions.
Next ==
    \/ \E t \in Tasks : PlaceStart(t, Requests)
    \/ \E t \in Tasks : ProcessLine(t)
    \/ \E t \in Tasks : Commit(t)
    \/ \E t \in Tasks : Cancel(t)
    \/ \E t \in Tasks : DeadlockAbort(t)
    \/ HookDeliver(1, GatewayRequests)
    \/ HookCommit(1)
    \/ \E d \in Deleters : DeleteStart(d, OwnerDeleteRequests)
    \/ \E d \in Deleters : DeleteCommit(d)

Spec == Init /\ [][Next]_vars

\* Placements of one plain request, with every webhook request and every
\* deletion.
InitPay ==
    /\ initial = [p \in InventoryRows |-> MaxStock]
    /\ inventory = initial
    /\ locks = [p \in InventoryRows |-> None]
    /\ orders = <<>>
    /\ payments = <<>>
    /\ nextOrder = 1
    /\ tasks = [t \in Tasks |-> IdleTask]
    /\ hooks = [w \in Hooks |-> IdleHook]
    /\ deletes = [d \in Deleters |-> IdleDelete]
    /\ reads = [r \in Readers |-> IdleRead]
    /\ tokens = [u \in Users |-> "valid"]

PlainRequests ==
    {r \in Requests : r.user = 1 /\ r.address = 1 /\ r.items = <<Line(1, None, 1)>>}

NextPay ==
    \/ \E t \in Tasks : PlaceStart(t, PlainRequests)
    \/ \E t \in Tasks : ProcessLine(t)
    \/ \E t \in Tasks : Commit(t)
    \/ \E t \in Tasks : Cancel(t)
    \/ HookDeliver(1, HookRequests)
    \/ HookCommit(1)
    \/ \E d \in Deleters : DeleteStart(d, DeleteRequests)
    \/ \E d \in Deleters : DeleteCommit(d)

SpecPay == InitPay /\ [][NextPay]_vars

\* Placements of bodies at the edge of the schema: no items, a quantity of
\* zero or below, beside a plain request; with the gateway's deliveries and
\* the owner's deletions.
EdgeItemLists ==
    { <<>>, <<Line(1, None, 0)>>, <<Line(1, None, 0 - 1)>>,
      <<Line(1, None, 1), Line(2, None, 0)>>, <<Line(1, None, 1)>> }

EdgeRequests == [user : {1}, address : {1, 3}, items : EdgeItemLists]

NextEdge ==
    \/ \E t \in Tasks : PlaceStart(t, EdgeRequests)
    \/ \E t \in Tasks : ProcessLine(t)
    \/ \E t \in Tasks : Commit(t)
    \/ \E t \in Tasks : Cancel(t)
    \/ HookDeliver(1, GatewayRequests)
    \/ HookCommit(1)
    \/ \E d \in Deleters : DeleteStart(d, OwnerDeleteRequests)
    \/ \E d \in Deleters : DeleteCommit(d)

SpecEdge == InitPay /\ [][NextEdge]_vars

\* Plain placements with the gateway's deliveries handled by two workers at
\* once and every deletion.
NextRace ==
    \/ \E t \in Tasks : PlaceStart(t, PlainRequests)
    \/ \E t \in Tasks : ProcessLine(t)
    \/ \E t \in Tasks : Commit(t)
    \/ \E t \in Tasks : Cancel(t)
    \/ \E w \in Hooks : HookDeliver(w, GatewayRequests)
    \/ \E w \in Hooks : HookCommit(w)
    \/ \E d \in Deleters : DeleteStart(d, DeleteRequests)
    \/ \E d \in Deleters : DeleteCommit(d)

SpecRace == InitPay /\ [][NextRace]_vars

\* logout: jwt_required(), then the jti is put on the blocklist until the
\* token expires; any failure is answered 401 and changes nothing.
Logout(user) ==
    /\ tokens' = [tokens EXCEPT ![user] =
           IF JwtRequired(user) THEN "blocklisted" ELSE tokens[user]]
    /\ UNCHANGED <<initial, inventory, locks, orders, payments, nextOrder, tasks, hooks, deletes, reads>>

\* The token reaches its exp; the blocklist entry, set to expire with it, goes.
Expire(user) ==
    /\ tokens[user] # "expired"
    /\ tokens' = [tokens EXCEPT ![user] = "expired"]
    /\ UNCHANGED <<initial, inventory, locks, orders, payments, nextOrder, tasks, hooks, deletes, reads>>

\* The read routes and hello, for the owner of the orders.
AuthRequests ==
    {q \in ReadRequests : q.user = 1}
        \cup [route : {"hello"}, user : Users, order : {None}]

\* Plain placements, deletions and reads by users who log out and whose
\* tokens expire.
NextAuth ==
    \/ \E u \in Users : Logout(u)
    \/ \E u \in Users : Expire(u)
    \/ \E t \in Tasks : PlaceStart(t, PlainRequests)
    \/ \E t \in Tasks : ProcessLine(t)
    \/ \E t \in Tasks : Commit(t)
    \/ \E t \in Tasks : Cancel(t)
    \/ \E d \in Deleters : DeleteStart(d, OwnerDeleteRequests)
    \/ \E d \in Deleters : DeleteCommit(d)
    \/ \E r \in Readers : Read(r, AuthRequests)

SpecAuth == InitPay /\ [][NextAuth]_vars

\* Order.ORDER_STATUSES
OrderStatuses ==
    {"PENDING", "CONFIRMED", "PREPARING", "IN_TRANSIT", "DELIVERED", "CANCELLED",
     "REFUNDED"}

\* An order of user 2 already in the orders table, in any status of the
\* column, with its payment: PENDING while the order awaits payment or was
\* cancelled, REFUNDED with a refunded order, COMPLETED otherwise; or with no
\* payment row (Order.payment is optional: the read routes test for it).
StoredOrder(status) ==
    [user_id |-> 2, total_amount |-> BasePrice[2], delivery_address_id |-> 2,
     status |-> status,
     items |-> <<[product_id |-> 2, variant_id |-> None, quantity |-> 1,
                  unit_price |-> BasePrice[2]]>>]

StoredPayment(status) ==
    [order_id |-> 1, amount |-> BasePrice[2],
     status |-> IF status \in {"PENDING", "CANCELLED"} THEN "PENDING"
                ELSE IF status = "REFUNDED" THEN "REFUNDED" ELSE "COMPLETED",
     method |-> "DEBIT_CARD", transaction_id |-> 2,
     gateway_response |-> IF status \in {"PENDING", "CANCELLED"} THEN None ELSE 1]

InitStored ==
    /\ initial = [p \in InventoryRows |-> MaxStock]
    /\ inventory = initial
    /\ locks = [p \in InventoryRows |-> None]
    /\ \E status \in OrderStatuses, paid \in BOOLEAN :
          /\ orders = (1 :> StoredOrder(status))
          /\ payments = IF paid THEN (1 :> StoredPayment(status)) ELSE <<>>
    /\ nextOrder = 2
    /\ tasks = [t \in Tasks |-> IdleTask]
    /\ hooks = [w \in Hooks |-> IdleHook]
    /\ deletes = [d \in Deleters |-> IdleDelete]
    /\ reads = [r \in Readers |-> IdleRead]
    /\ tokens = [u \in Users |-> "valid"]

\* A stored order of another user, one plain placement, the gateway's
\* deliveries, every deletion and every read.
NextStored ==
    \/ PlaceStart(1, PlainRequests)
    \/ ProcessLine(1)
    \/ Commit(1)
    \/ Cancel(1)
    \/ HookDeliver(1, GatewayRequests)
    \/ HookCommit(1)
    \/ \E d \in Deleters : DeleteStart(d, DeleteRequests)
    \/ \E d \in Deleters : DeleteCommit(d)
    \/ \E r \in Readers : Read(r, ReadRequests)

SpecStored == InitStored /\ [][NextStored]_vars

\* ------------------------------------------------------------------ claims
RECURSIVE Reserved(_, _)
Reserved(ids, p) ==
    IF ids = {} THEN 0
    ELSE LET o == CHOOSE x \in ids : TRUE
         IN  QtyOf(orders[o].items, p) + Reserved(ids \ {o}, p)

\* C1: every inventory quantity is non-negative and equals the initial
\* quantity minus the units of that product in the committed orders.
C1_InventoryAccounted ==
    \A p \in InventoryRows :
        /\ inventory[p] >= 0
        /\ inventory[p] = initial[p] - Reserved(DOMAIN orders, p)

\* Two placements that ran concurrently have both committed units of one product.
C1_Witness ==
    /\ \A t \in Tasks : tasks[t].code = "201"
    /\ \E p \in InventoryRows :
          /\ \A o \in DOMAIN orders : QtyOf(orders[o].items, p) > 0
          /\ inventory[p] = 0

\* A valid request for one unit of product p.
OneUnitOf(r, p) ==
    /\ AddressFound(r)
    /\ Len(r.items) = 1
    /\ r.items[1].product = p
    /\ r.items[1].quantity = 1
    /\ r.items[1].variant # None => VariantFound(r.items[1].variant, p)

LastUnitContended(t, u, p) ==
    /\ initial[p] = 1
    /\ tasks[t].pc = "done" /\ OneUnitOf(tasks[t].req, p) /\ tasks[t].code # "cancelled"
    /\ tasks[u].pc = "done" /\ OneUnitOf(tasks[u].req, p) /\ tasks[u].code # "cancelled"

\* C2: of two placements that each ask for the one unit in stock, exactly one
\* commits and the other ends with 409.
C2_LastUnit ==
    \A t \in Tasks, u \in Tasks, p \in InventoryRows :
        (t # u /\ LastUnitContended(t, u, p)) =>
            \/ tasks[t].code = "201" /\ tasks[u].code = "409"
            \/ tasks[t].code = "409" /\ tasks[u].code = "201"

C2_Witness ==
    \E p \in InventoryRows :
        /\ LastUnitContended(1, 2, p)
        /\ tasks[1].code = "409"
        /\ tasks[2].code = "201"

\* C3: every step a placement takes, other than its commit, leaves the
\* committed inventory, orders and payments as they were, so a placement that
\* ends without committing has changed none of them.
C3_FailureLeavesNothing ==
    [][\A t \in Tasks :
          (tasks'[t] # tasks[t] /\ tasks'[t].code # "201") =>
              /\ inventory' = inventory
              /\ orders' = orders
              /\ payments' = payments]_vars

\* A two-line placement failed on its second line after reserving the first.
C3_Witness ==
    \E t \in Tasks :
        /\ tasks[t].pc = "done"
        /\ tasks[t].code \in {"409", "404"}
        /\ Len(tasks[t].req.items) = 2
        /\ tasks[t].req.items[1].product \in InventoryRows
        /\ inventory = initial
        /\ orders = <<>>

\* C4: the total of every order is the sum of quantity times unit price over
\* its items, in every state the order is in.
C4_TotalIsSum ==
    \A o \in DOMAIN orders : orders[o].total_amount = SumItems(orders[o].items)

\* A confirmed order of two lines, one of them of several units.
C4_Witness ==
    \E o \in DOMAIN orders :
        /\ orders[o].status = "CONFIRMED"
        /\ Len(orders[o].items) = 2
        /\ orders[o].items[1].quantity > 1
        /\ orders[o].items[1].unit_price # orders[o].items[2].unit_price

PaymentsFor(o) == {pid \in DOMAIN payments : payments[pid].order_id = o}

Paired ==
    /\ \A o \in DOMAIN orders :
          /\ Cardinality(PaymentsFor(o)) = 1
          /\ \A pid \in PaymentsFor(o) : payments[pid].amount = orders[o].total_amount
    /\ \A pid \in DOMAIN payments : payments[pid].order_id \in DOMAIN orders

CommitsTogether(t) ==
    \E o \in DOMAIN orders' \ DOMAIN orders, pid \in DOMAIN payments' \ DOMAIN payments :
        /\ DOMAIN orders' = DOMAIN orders \cup {o}
        /\ DOMAIN payments' = DOMAIN payments \cup {pid}
        /\ orders'[o].status = "PENDING"
        /\ orders'[o].user_id = tasks[t].req.user
        /\ orders'[o].items = tasks[t].built
        /\ tasks[t].built # <<>>
        /\ payments'[pid].status = "PENDING"
        /\ payments'[pid].order_id = o
        /\ payments'[pid].amount = orders'[o].total_amount

\* C5: a placement that succeeds adds, in one step, one PENDING order of the
\* requesting user with its items and one PENDING payment of the order's
\* total; every order has exactly one payment and every payment its order.
C5_OrderAndPaymentTogether ==
    /\ []Paired
    /\ [][\A t \in Tasks :
             (tasks[t].code # "201" /\ tasks'[t].code = "201") => CommitsTogether(t)]_vars
    /\ [][(DOMAIN orders' # DOMAIN orders \/ DOMAIN payments' # DOMAIN payments) =>
             \E t \in Tasks : tasks[t].code # "201" /\ tasks'[t].code = "201"]_vars

C5_Witness ==
    /\ Cardinality(DOMAIN orders) = 2
    /\ Cardinality(DOMAIN payments) = 2
    /\ \E pid \in DOMAIN payments : payments[pid].status = "COMPLETED"

\* A delivery that found its payment already COMPLETED by the same event.
Redelivered(w) ==
    /\ hooks[w].pc = "found"
    /\ payments[hooks[w].payment].status = "COMPLETED"
    /\ payments[hooks[w].payment].gateway_response = hooks[w].body.data

FirstDelivered(w) ==
    /\ hooks[w].pc = "found"
    /\ payments[hooks[w].payment].status = "PENDING"

\* C6: the first delivery of a signed charge.success event completes the
\* payment and confirms its order; a further delivery of the same event
\* leaves every payment and order as they are, and a completed payment and a
\* confirmed order stay so.
C6_RedeliveryChangesNothing ==
    /\ [][\A w \in Hooks :
             (FirstDelivered(w) /\ hooks'[w].pc = "done") =>
                 /\ payments'[hooks[w].payment].status = "COMPLETED"
                 /\ orders'[payments[hooks[w].payment].order_id].status = "CONFIRMED"]_vars
    /\ [][\A w \in Hooks :
             (Redelivered(w) /\ hooks'[w].pc = "done") =>
                 payments' = payments /\ orders' = orders]_vars
    /\ [][\A pid \in DOMAIN payments :
             payments[pid].status = "COMPLETED" => payments'[pid].status = "COMPLETED"]_vars
    /\ [][\A o \in DOMAIN orders :
             orders[o].status = "CONFIRMED" =>
                 o \in DOMAIN orders' /\ orders'[o].status = "CONFIRMED"]_vars

\* The same event has been applied once and its second delivery was accepted.
C6_Witness ==
    /\ Redelivered(1)
    /\ orders[payments[hooks[1].payment].order_id].status = "CONFIRMED"

\* C7: a signed charge.success delivery whose payment is not PENDING changes
\* neither the payment (status, gateway_response) nor any order.
C7_NotPendingIsNoOp ==
    [][\A w \in Hooks :
          (/\ hooks[w].pc = "found"
           /\ payments[hooks[w].payment].status # "PENDING"
           /\ hooks'[w].pc = "done") =>
              payments' = payments /\ orders' = orders]_vars

BadlySigned(h) ==
    \/ h.signature = NoSignature
    \/ h.signature # Hmac(Secret, h.body)

\* C8: a delivery whose signature is missing or is not the tag of the body
\* sent under the secret is answered 401 with no payment looked up and no
\* payment or order changed; no delivery is acted on without such a signature.
C8_BadSignatureRejected ==
    /\ [][\A w \in Hooks :
             (hooks[w].pc # "found" /\ hooks'[w] # hooks[w] /\ BadlySigned(hooks'[w])) =>
                 /\ hooks'[w].pc = "done"
                 /\ hooks'[w].code = "401"
                 /\ hooks'[w].payment = None
                 /\ payments' = payments
                 /\ orders' = orders]_vars
    /\ [](\A w \in Hooks : hooks[w].pc = "found" => ~BadlySigned(hooks[w]))

\* A charge.success body for a pending payment, signed over another body, was
\* answered 401.
C8_Witness ==
    \E w \in Hooks :
        /\ hooks[w].code = "401"
        /\ hooks[w].body.event = "charge.success"
        /\ \E b \in Bodies \ {hooks[w].body} : hooks[w].signature = Hmac(Secret, b)
        /\ \E pid \in PaymentsOf(hooks[w].body.reference) : payments[pid].status = "PENDING"

\* C9: delete_order by the owner ends 204 with the order removed when the
\* order is PENDING, and ends 400 with the orders unchanged when it is not.
C9_DeleteOnlyPending ==
    [][\A d \in Deleters :
          (/\ deletes'[d] # deletes[d]
           /\ deletes'[d].pc = "done"
           /\ OrderOf(deletes'[d].user, deletes'[d].order) # {}) =>
              IF orders[deletes'[d].order].status = "PENDING"
              THEN deletes'[d].code = "204" /\ deletes'[d].order \notin DOMAIN orders'
              ELSE deletes'[d].code = "400" /\ orders' = orders]_vars

\* C10: the inventory rows a placement has locked so far were locked in
\* ascending order of product id.
C10_LocksAscending ==
    \A t \in Tasks :
        \A i \in 1..Len(tasks[t].built), j \in 1..Len(tasks[t].built) :
            i < j => tasks[t].built[i].product_id <= tasks[t].built[j].product_id

\* C11: no two placements each hold an inventory lock the other is waiting
\* for.
C11_NoCircularWait ==
    \A t \in Tasks, u \in Tasks :
        t # u => ~(WaitsFor(t, u) /\ WaitsFor(u, t))

\* A placement whose locking select cannot return: its next row is locked by
\* another transaction.
Blocked(t) ==
    /\ tasks[t].pc = "tx"
    /\ tasks[t].idx < Len(tasks[t].req.items)
    /\ ~ENABLED ProcessLine(t)

\* C12: the locking select of a placement never waits: whenever a placement
\* has a line left, its select returns at once, with the row or a failure.
C12_NeverWaits ==
    \A t \in Tasks : ~Blocked(t)

\* The next line of a placement asks for more than the row holds, or for a
\* product with no inventory row.
OverStock(t) ==
    LET line == tasks[t].req.items[tasks[t].idx + 1]
    IN  \/ line.product \notin InventoryRows
        \/ ReadQuantity(t, line.product) < line.quantity

Available(t) ==
    LET line == tasks[t].req.items[tasks[t].idx + 1]
    IN  IF line.product \in InventoryRows THEN ReadQuantity(t, line.product) ELSE 0

\* C13: a line that asks for more than is available ends the placement with
\* a 409 whose detail names the product and the available quantity, and the
\* committed inventory is unchanged.
C13_ConflictNamesAvailable ==
    [][\A t \in Tasks :
          (/\ tasks[t].pc = "tx"
           /\ tasks[t].idx < Len(tasks[t].req.items)
           /\ OverStock(t)
           /\ tasks'[t] # tasks[t]
           /\ tasks'[t].code \notin {"cancelled", "500"}) =>
              /\ tasks'[t].code = "409"
              /\ inventory' = inventory
              /\ "product" \in DOMAIN tasks'[t].detail
              /\ tasks'[t].detail.product = tasks[t].req.items[tasks[t].idx + 1].product
              /\ "available" \in DOMAIN tasks'[t].detail
              /\ tasks'[t].detail.available = Available(t)]_vars

\* C14: every stored order item carries the base price of its product plus
\* the price modifier of its variant, or the base price alone without a
\* variant, and a single-line order totals quantity times that unit price.
C14_UnitPriceStored ==
    \A o \in DOMAIN orders :
        /\ \A i \in 1..Len(orders[o].items) :
              LET item == orders[o].items[i]
              IN  item.unit_price =
                      IF item.variant_id = None
                      THEN BasePrice[item.product_id]
                      ELSE BasePrice[item.product_id] + VariantModifier[item.variant_id]
        /\ Len(orders[o].items) = 1 =>
              orders[o].total_amount =
                  orders[o].items[1].quantity * orders[o].items[1].unit_price

\* A single-line order of several units of a product with a priced variant.
C14_Witness ==
    \E o \in DOMAIN orders :
        /\ Len(orders[o].items) = 1
        /\ orders[o].items[1].variant_id # None
        /\ orders[o].items[1].quantity > 1
        /\ orders[o].items[1].unit_price > BasePrice[orders[o].items[1].product_id]
        /\ orders[o].total_amount > orders[o].items[1].unit_price

\* A body place_order must reject: no items, or a line of quantity 0 or less.
Rejectable(req) ==
    \/ req.items = <<>>
    \/ \E i \in 1..Len(req.items) : req.items[i].quantity <= 0

\* C15: a request with no items or with a line of quantity 0 or less is
\* rejected: it ends with an error code, and no step it takes changes the
\* inventory, the orders or the payments.
C15_EmptyOrNonPositiveRejected ==
    /\ [](\A t \in Tasks :
            (tasks[t].pc = "done" /\ Rejectable(tasks[t].req)) =>
                tasks[t].code \in {"422", "400", "404"})
    /\ [][\A t \in Tasks :
             (tasks'[t] # tasks[t] /\ tasks'[t].pc # "idle" /\ Rejectable(tasks'[t].req)) =>
                 /\ inventory' = inventory
                 /\ orders' = orders
                 /\ payments' = payments]_vars

\* The delivery address of a request is no row, or a row of another user.
ForeignAddress(req) ==
    \A a \in DOMAIN AddressOwner : a = req.address => AddressOwner[a] # req.user

\* C16: a valid body whose delivery address does not exist or belongs to
\* another user ends with 404 and no order, and no step of that request
\* changes the inventory, the orders or the payments.
C16_ForeignAddressNotFound ==
    /\ [](\A t \in Tasks :
            (tasks[t].pc # "idle" /\ SchemaValid(tasks[t].req) /\ ForeignAddress(tasks[t].req)) =>
                /\ tasks[t].pc = "done"
                /\ tasks[t].code = "404"
                /\ tasks[t].order = None)
    /\ [][\A t \in Tasks :
             (/\ tasks'[t] # tasks[t]
              /\ tasks'[t].pc # "idle"
              /\ ForeignAddress(tasks'[t].req)) =>
                 /\ inventory' = inventory
                 /\ orders' = orders
                 /\ payments' = payments]_vars

\* A request naming the address of another user was refused, while the owner
\* of that address has ordered to it.
C16_Witness ==
    \E t \in Tasks, o \in DOMAIN orders :
        /\ tasks[t].code = "404"
        /\ tasks[t].req.address \in DOMAIN AddressOwner
        /\ tasks[t].req.user # AddressOwner[tasks[t].req.address]
        /\ orders[o].delivery_address_id = tasks[t].req.address
        /\ orders[o].user_id = AddressOwner[tasks[t].req.address]

\* A line place_order must refuse as not found: its product is no row or is
\* inactive, or its variant is no row or a variant of another product.
Unknown(line) ==
    \/ line.product \notin ProductRows
    \/ ~IsActive[line.product]
    \/ /\ line.variant # None
       /\ \A v \in DOMAIN VariantProduct : v = line.variant => VariantProduct[v] # line.product

\* C17: a placement whose first line is such a line commits nothing and ends
\* with 404 (or with 409 when the line's inventory row holds too little).
C17_UnknownLineNotFound ==
    \A t \in Tasks :
        (/\ tasks[t].pc = "done"
         /\ tasks[t].code \notin {"422", "cancelled", "500"}
         /\ ~ForeignAddress(tasks[t].req)
         /\ tasks[t].req.items # <<>>
         /\ Unknown(tasks[t].req.items[1])) =>
            \/ tasks[t].code = "404"
            \/ /\ tasks[t].code = "409"
               /\ tasks[t].req.items[1].product \in InventoryRows

\* An order that exists and belongs to another user than the one asking.
Foreign(user, oid) ==
    /\ oid \in DOMAIN orders
    /\ orders[oid].user_id # user

\* What a user may be shown: the responses of its own orders.
OwnResponses(user) ==
    {OrderResponse(o) : o \in {x \in DOMAIN orders : orders[x].user_id = user}}

\* C18: get_my_order and delete_order naming another user's order answer 404,
\* show nothing and change nothing; get_my_orders shows a user its own orders
\* only; get_order shows nothing to a user who is not staff, and no answer
\* shows a user another user's order unless that user is staff on get_order.
C18_OwnerScoped ==
    /\ [][\A r \in Readers :
             reads'[r] # reads[r] =>
                 LET a == reads'[r]
                 IN  /\ (a.route = "get_my_order" /\ Foreign(a.user, a.order)) =>
                            a.code = "404" /\ a.body = {}
                     /\ a.route = "get_my_orders" => a.body \subseteq OwnResponses(a.user)
                     /\ (a.route = "get_order" /\ ~IsStaff[a.user]) =>
                            a.code = "403" /\ a.body = {}
                     /\ (a.body # {} /\ a.order # None /\ Foreign(a.user, a.order)) =>
                            IsStaff[a.user] /\ a.route = "get_order"
                     /\ orders' = orders
                     /\ payments' = payments]_vars
    /\ [][\A d \in Deleters :
             (deletes'[d] # deletes[d] /\ Foreign(deletes'[d].user, deletes'[d].order)) =>
                 /\ deletes'[d].pc = "done"
                 /\ deletes'[d].code = "404"
                 /\ orders' = orders
                 /\ payments' = payments]_vars

\* A user was refused both the reading and the deletion of another user's
\* pending order, after reading an order of its own.
C18_Witness ==
    \E r \in Readers, d \in Deleters :
        /\ reads[r].route = "get_my_order"
        /\ reads[r].code = "404"
        /\ Foreign(reads[r].user, reads[r].order)
        /\ orders[reads[r].order].status = "PENDING"
        /\ OwnResponses(reads[r].user) # {}
        /\ deletes[d].code = "404"
        /\ deletes[d].user = reads[r].user
        /\ deletes[d].order = reads[r].order

\* C19: a payment that is not PENDING stays a row and is not PENDING after
\* any step; a new payment is PENDING and appears in the step in which a
\* placement succeeds.
C19_NeverBackToPending ==
    /\ [][\A pid \in DOMAIN payments :
             payments[pid].status # "PENDING" =>
                 /\ pid \in DOMAIN payments'
                 /\ payments'[pid].status # "PENDING"]_vars
    /\ [][\A pid \in DOMAIN payments' \ DOMAIN payments :
             /\ payments'[pid].status = "PENDING"
             /\ \E t \in Tasks : tasks[t].code # "201" /\ tasks'[t].code = "201"]_vars

\* A signed delivery with other data has found a payment already COMPLETED,
\* while another payment is still PENDING.
C19_Witness ==
    \E w \in Hooks, pid \in DOMAIN payments :
        /\ hooks[w].pc = "found"
        /\ payments[hooks[w].payment].status = "COMPLETED"
        /\ payments[hooks[w].payment].gateway_response # hooks[w].body.data
        /\ payments[pid].status = "PENDING"

Delivered(w) ==
    /\ hooks[w].pc # "found"
    /\ hooks'[w] # hooks[w]

\* C21: a delivery signed over its body whose event is not charge.success,
\* absent included, is answered 200 and changes no payment and no order.
C21_OtherEventAcknowledged ==
    [][\A w \in Hooks :
          (/\ Delivered(w)
           /\ hooks'[w].signature = Hmac(Secret, hooks'[w].body)
           /\ hooks'[w].body.event # "charge.success") =>
              /\ hooks'[w].pc = "done"
              /\ hooks'[w].code = "200"
              /\ payments' = payments
              /\ orders' = orders]_vars

\* C22: a signed charge.success delivery whose reference no payment carries
\* is answered 200 and changes no payment and no order.
C22_UnknownReferenceAcknowledged ==
    [][\A w \in Hooks :
          (/\ Delivered(w)
           /\ hooks'[w].signature = Hmac(Secret, hooks'[w].body)
           /\ hooks'[w].body.event = "charge.success"
           /\ \A pid \in DOMAIN payments :
                 payments[pid].transaction_id # hooks'[w].body.reference) =>
              /\ hooks'[w].pc = "done"
              /\ hooks'[w].code = "200"
              /\ hooks'[w].payment = None
              /\ payments' = payments
              /\ orders' = orders]_vars

\* A signed charge.success for a reference no payment carries was answered
\* 200 while a payment with another reference is still PENDING.
C22_Witness ==
    \E w \in Hooks, pid \in DOMAIN payments :
        /\ hooks[w].pc = "done"
        /\ hooks[w].code = "200"
        /\ hooks[w].body.event = "charge.success"
        /\ hooks[w].signature = Hmac(Secret, hooks[w].body)
        /\ \A q \in DOMAIN payments : payments[q].transaction_id # hooks[w].body.reference
        /\ payments[pid].status = "PENDING"

\* C23: a placement that has committed has invoked the event publisher with
\* the id of its order.
C23_CommitPublishes ==
    \A t \in Tasks :
        tasks[t].code = "201" =>
            \E i \in 1..Len(tasks[t].events) : tasks[t].events[i] = tasks[t].order

\* C24: no two payments carry the same transaction reference.
C24_ReferencesDistinct ==
    \A pid \in DOMAIN payments, q \in DOMAIN payments :
        pid # q => payments[pid].transaction_id # payments[q].transaction_id

\* C25: a step that changes an inventory quantity is the commit of a
\* placement and lowers it; deliveries, reads and deletions change none.
C25_InventoryOnlyDownByPlacement ==
    [][inventory' # inventory =>
          /\ \E t \in Tasks : tasks[t].code # "201" /\ tasks'[t].code = "201"
          /\ \A p \in InventoryRows : inventory'[p] <= inventory[p]
          /\ hooks' = hooks
          /\ deletes' = deletes
          /\ reads' = reads]_vars

\* A pending order was deleted after a placement had committed: the rows
\* hold what the placement left, the units of the deleted order not returned.
C25_Witness ==
    \E d \in Deleters, t \in Tasks :
        /\ deletes[d].code = "204"
        /\ deletes[d].order \notin DOMAIN orders
        /\ tasks[t].code = "201"
        /\ \E p \in InventoryRows : inventory[p] < initial[p]
        /\ \A p \in InventoryRows : inventory[p] = initial[p] - Reserved(DOMAIN orders, p)

\* C26: no two deliveries of one event are, at the same time, past the
\* lookup of the same PENDING payment and about to write it: at most one
\* performs the transition.
C26_OneTransition ==
    \A w \in Hooks, u \in Hooks :
        (/\ w # u
         /\ hooks[w].pc = "found"
         /\ hooks[u].pc = "found"
         /\ hooks[w].body = hooks[u].body
         /\ hooks[w].payment = hooks[u].payment) =>
            payments[hooks[w].payment].status # "PENDING"

\* C27: a payment that is COMPLETED has its order: no interleaving of a
\* delivery with a deletion removes the order of a completed payment.
C27_CompletedOrderKept ==
    \A pid \in DOMAIN payments :
        payments[pid].status = "COMPLETED" => payments[pid].order_id \in DOMAIN orders

\* A deletion that had found the order PENDING was overtaken by the delivery
\* that completed its payment, and was refused.
C27_Witness ==
    \E d \in Deleters, w \in Hooks :
        /\ deletes[d].pc = "done"
        /\ deletes[d].code = "500"
        /\ deletes[d].order \in DOMAIN orders
        /\ orders[deletes[d].order].status = "CONFIRMED"
        /\ hooks[w].pc = "done"
        /\ hooks[w].payment # None
        /\ payments[hooks[w].payment].order_id = deletes[d].order
        /\ payments[hooks[w].payment].status = "COMPLETED"

\* C28: every payment references an order that exists.
C28_PaymentHasOrder ==
    \A pid \in DOMAIN payments : payments[pid].order_id \in DOMAIN orders

\* The deletion of a pending order with a payment was refused and the order
\* is still there with its payment, while a delivery has completed a payment.
C28_Witness ==
    \E d \in Deleters, pid \in DOMAIN payments, q \in DOMAIN payments :
        /\ deletes[d].pc = "done"
        /\ deletes[d].code = "500"
        /\ deletes[d].order \in DOMAIN orders
        /\ orders[deletes[d].order].status = "PENDING"
        /\ payments[pid].order_id = deletes[d].order
        /\ payments[q].status = "COMPLETED"
        /\ payments[q].gateway_response # None

\* The units of product p a request asks for, over all its lines.
RECURSIVE Asked(_, _)
Asked(lines, p) ==
    IF lines = <<>> THEN 0
    ELSE (IF lines[1].product = p THEN lines[1].quantity ELSE 0) + Asked(Tail(lines), p)

\* C29: a placement commits only if, for every product, the units of all its
\* lines together are at most the quantity in stock; the commit lowers the
\* quantity by that sum and stores one order item per line.
C29_CumulativeStockCheck ==
    [][\A t \in Tasks :
          (tasks[t].code # "201" /\ tasks'[t].code = "201") =>
              /\ \A p \in InventoryRows :
                    /\ Asked(tasks[t].req.items, p) <= inventory[p]
                    /\ inventory'[p] = inventory[p] - Asked(tasks[t].req.items, p)
              /\ Len(orders'[tasks'[t].order].items) = Len(tasks[t].req.items)]_vars

\* A request of two lines for one product has committed two order items and
\* the row is lower by the units of both.
C29_Witness ==
    \E t \in Tasks, o \in DOMAIN orders :
        /\ tasks[t].code = "201"
        /\ tasks[t].order = o
        /\ Len(orders[o].items) = 2
        /\ orders[o].items[1].product_id = orders[o].items[2].product_id
        /\ inventory[orders[o].items[1].product_id] =
               initial[orders[o].items[1].product_id]
                   - (orders[o].items[1].quantity + orders[o].items[2].quantity)

\* C30: an operation presented with a token whose jti is on the blocklist is
\* rejected, whichever route it is: place_order, the order reads,
\* delete_order, hello.
C30_BlocklistedRejected ==
    /\ [][\A t \in Tasks :
             (/\ tasks[t].pc = "idle"
              /\ tasks'[t].pc # "idle"
              /\ tokens[tasks'[t].req.user] = "blocklisted") =>
                 tasks'[t].pc = "done" /\ tasks'[t].code \in {"401", "500"}]_vars
    /\ [][\A r \in Readers :
             (reads'[r] # reads[r] /\ tokens[reads'[r].user] = "blocklisted") =>
                 reads'[r].code \in {"401", "500"} /\ reads'[r].body = {}]_vars
    /\ [][\A d \in Deleters :
             (/\ deletes[d].pc # "found"
              /\ deletes'[d] # deletes[d]
              /\ tokens[deletes'[d].user] = "blocklisted") =>
                 deletes'[d].pc = "done" /\ deletes'[d].code \in {"401", "500"}]_vars

====
